---- MODULE Spec2Model ----
(***************************************************************************)
(* Model of release_ce_project.py: the release packager that resolves the  *)
(* engine path, deletes the old export, mirrors the engine files, packages *)
(* the assets, copies the level files, locates the game DLL and writes     *)
(* system.cfg.                                                             *)
(*                                                                         *)
(* Strings are sequences of one-character strings, so that the string      *)
(* operations of the script (split, replace, endswith, in, fnmatch) are    *)
(* computed, not assumed.  A file tree is a record [dirs, files]: the set  *)
(* of directory paths and a function from file path to content.            *)
(***************************************************************************)
EXTENDS Integers, Sequences, FiniteSets, TLC

(* ------------------------------------------------------------------ *)
(* Bounds of the model.                                                *)
(* ------------------------------------------------------------------ *)
MaxEngineFiles == 3
MaxAssets == 3
MaxLevelFiles == 3
MaxBinFiles == 3
MaxRegistry == 3
MaxRuns == 2

(* ------------------------------------------------------------------ *)
(* String helpers (Python str / os.path / fnmatch on Windows).         *)
(* ------------------------------------------------------------------ *)
SEP == "\\"

\* The lower-case form of a character, for the capitals that occur in the
\* names and patterns of the model.
Lower(c) ==
    CASE c = "A" -> "a" [] c = "C" -> "c" [] c = "D" -> "d" [] c = "E" -> "e"
      [] c = "G" -> "g" [] c = "L" -> "l" [] c = "M" -> "m" [] c = "P" -> "p"
      [] c = "Q" -> "q" [] c = "S" -> "s" [] c = "T" -> "t" [] c = "Z" -> "z"
      [] OTHER -> c

\* str.lower()
lower(s) == [i \in 1..Len(s) |-> Lower(s[i])]

\* ntpath.normcase: lower-case, and forward slashes become backslashes.
normcase(s) == [i \in 1..Len(s) |-> IF s[i] = "/" THEN SEP ELSE Lower(s[i])]

\* fnmatch.fnmatchcase for the pattern language the script uses: "*" matches
\* any run of characters (path separators included), "?" any one character.
RECURSIVE fnmatchcase(_, _)
fnmatchcase(s, p) ==
    IF p = <<>> THEN s = <<>>
    ELSE IF Head(p) = "*"
         THEN fnmatchcase(s, Tail(p)) \/ (s # <<>> /\ fnmatchcase(Tail(s), p))
         ELSE /\ s # <<>>
              /\ (Head(p) = "?" \/ Head(p) = Head(s))
              /\ fnmatchcase(Tail(s), Tail(p))

\* fnmatch.fnmatch: both arguments go through os.path.normcase first.
fnmatch(name, pat) == fnmatchcase(normcase(name), normcase(pat))

StartsWith(s, pre) == Len(s) >= Len(pre) /\ SubSeq(s, 1, Len(pre)) = pre

\* str.endswith
EndsWith(s, suf) ==
    Len(s) >= Len(suf) /\ SubSeq(s, Len(s) - Len(suf) + 1, Len(s)) = suf

\* sub in s
Contains(s, sub) ==
    \E i \in 1..(Len(s) - Len(sub) + 1) : SubSeq(s, i, i + Len(sub) - 1) = sub

\* str.replace(old, new): every occurrence, left to right.
RECURSIVE Replace(_, _, _)
Replace(s, old, new) ==
    IF s = <<>> THEN <<>>
    ELSE IF StartsWith(s, old)
         THEN new \o Replace(SubSeq(s, Len(old) + 1, Len(s)), old, new)
         ELSE <<Head(s)>> \o Replace(Tail(s), old, new)

\* str.split(sep) for a one-character separator: the list of fields.
RECURSIVE Split(_, _)
Split(s, sep) ==
    IF \A i \in 1..Len(s) : s[i] # sep THEN <<s>>
    ELSE LET k == CHOOSE i \in 1..Len(s) :
                      s[i] = sep /\ \A j \in 1..(i - 1) : s[j] # sep
         IN  <<SubSeq(s, 1, k - 1)>> \o Split(SubSeq(s, k + 1, Len(s)), sep)

\* os.path.join of two parts (the second is relative).
join(a, b) == IF a = <<>> THEN b ELSE a \o <<SEP>> \o b

\* os.path.dirname
dirname(p) ==
    IF \A i \in 1..Len(p) : p[i] # SEP THEN <<>>
    ELSE LET k == CHOOSE i \in 1..Len(p) :
                      p[i] = SEP /\ \A j \in (i + 1)..Len(p) : p[j] # SEP
         IN  SubSeq(p, 1, k - 1)

\* os.path.basename
basename(p) ==
    IF \A i \in 1..Len(p) : p[i] # SEP THEN p
    ELSE LET k == CHOOSE i \in 1..Len(p) :
                      p[i] = SEP /\ \A j \in (i + 1)..Len(p) : p[j] # SEP
         IN  SubSeq(p, k + 1, Len(p))

\* A path and all the directories above it.
RECURSIVE Ancestors(_)
Ancestors(p) == IF p = <<>> THEN {} ELSE {p} \cup Ancestors(dirname(p))

(* ------------------------------------------------------------------ *)
(* Constants of the script.                                            *)
(* ------------------------------------------------------------------ *)
default_dll_name == <<"G","a","m","e",".","d","l","l">>

\* The paths main() is configured with.
project_path == <<"p","r","j">>
export_path == <<"c","e","_","g","a","m","e">>

rel_dir == <<"b","i","n">> \o <<SEP>> \o <<"w","i","n","_","x","6","4">>

excludes ==
    << <<"i","m","a","g","e","f","o","r","m","a","t","s","*","*">>,
       <<"T","o","o","l","k","i","t","P","r","o","*">>,
       <<"p","l","a","t","f","o","r","m","s","*","*">>,
       <<"Q","t","*">>,
       <<"m","f","c","*">>,
       <<"C","r","y","G","a","m","e","*">>,
       <<"S","a","n","d","b","o","x","*">>,
       <<"S","h","a","d","e","r","C","a","c","h","e","G","e","n","*">>,
       <<"s","m","p","e","g","2","*">>,
       <<"i","c","u","*">>,
       <<"p","y","t","h","o","n","2","7","*">>,
       <<"L","u","a","C","o","m","p","i","l","e","r","*">>,
       <<"E","d","i","t","o","r","*","*">>,
       <<"P","y","S","i","d","e","2","*">>,
       <<"s","h","i","b","o","k","e","n","*">>,
       <<"c","r","a","s","h","r","p","t","*">>,
       <<"C","r","a","s","h","S","e","n","d","e","r","*">> >>

level_files ==
    { <<"f","i","l","e","l","i","s","t",".","x","m","l">>,
      <<"t","e","r","r","a","i","n","t","e","x","t","u","r","e",".","p","a","k">>,
      <<"l","e","v","e","l",".","p","a","k">> }

STR_levels == <<"l","e","v","e","l","s">>
STR_cryasset_pak == <<".","c","r","y","a","s","s","e","t",".","p","a","k">>
STR_zip == <<".","z","i","p">>
STR_pak == <<".","p","a","k">>
STR_dll_glob == <<"*",".","d","l","l">>
STR_Assets == <<"A","s","s","e","t","s">>
STR_engine == <<"e","n","g","i","n","e">>
STR_system_cfg == <<"s","y","s","t","e","m",".","c","f","g">>
STR_sys_game_folder == <<"s","y","s","_","g","a","m","e","_","f","o","l","d","e","r","=">>
STR_sys_dll_game == <<"s","y","s","_","d","l","l","_","g","a","m","e","=">>

(* ------------------------------------------------------------------ *)
(* File contents and file trees.                                       *)
(* ------------------------------------------------------------------ *)
\* The bytes of an ordinary file, named by a number.
Raw(n) == [kind |-> "raw", id |-> n, entries |-> {}, lines |-> <<>>]
\* A zip archive: the set of <<name in the archive, content of the member>>.
Zip(members) == [kind |-> "zip", id |-> 0, entries |-> members, lines |-> <<>>]
\* A text file: its lines.
Text(ls) == [kind |-> "text", id |-> 0, entries |-> {}, lines |-> ls]

EmptyFunction == [x \in {} |-> x]
EmptyTree == [dirs |-> {}, files |-> EmptyFunction]

\* os.path.exists
exists(fs, p) == p \in fs.dirs \/ p \in DOMAIN fs.files
\* os.path.isdir
isdir(fs, p) == p \in fs.dirs

\* os.makedirs
makedirs(fs, p) == [fs EXCEPT !.dirs = @ \cup Ancestors(p)]

\* Write content c at path p (the directory of p exists).
write_file(fs, p, c) ==
    [fs EXCEPT !.files = [q \in (DOMAIN @) \cup {p} |-> IF q = p THEN c ELSE @[q]]]

\* The idiom of copy_engine_binaries and copy_levels: create the parent
\* directory when it is missing, then shutil.copy.
copy_with_parents(fs, dest, c) ==
    LET withdir == IF ~exists(fs, dirname(dest)) THEN makedirs(fs, dirname(dest)) ELSE fs
    IN  write_file(withdir, dest, c)

\* The paths of a tree at or under p.
Under(fs_paths, p) == {q \in fs_paths : q = p \/ StartsWith(q, p \o <<SEP>>)}

\* shutil.rmtree(p): p must be a directory; everything at or under p goes.
rmtree(fs, p) ==
    LET keepf == (DOMAIN fs.files) \ Under(DOMAIN fs.files, p)
    IN  [dirs |-> fs.dirs \ Under(fs.dirs, p), files |-> [q \in keepf |-> fs.files[q]]]

(* ------------------------------------------------------------------ *)
(* get_engine_path                                                     *)
(* ------------------------------------------------------------------ *)
\* The while loop over winreg.EnumValue: every value with a non-empty name
\* is entered in the dict, a later value of the same name replacing an
\* earlier one.  reg is the sequence of <<name, path>> values of the key.
RECURSIVE enum_values(_, _)
enum_values(reg, engine_paths) ==
    IF reg = <<>> THEN engine_paths
    ELSE LET ver == Head(reg)[1]
             path == Head(reg)[2]
         IN  IF ver # <<>>
             THEN enum_values(Tail(reg),
                      [v \in (DOMAIN engine_paths) \cup {ver} |->
                          IF v = ver THEN path ELSE engine_paths[v]])
             ELSE enum_values(Tail(reg), engine_paths)

\* engine_tag.split('-')[1]; a tag without '-' has no second field.
version_of(engine_tag) == Split(engine_tag, "-")[2]

\* get_engine_path without the platform test: the registry is read on
\* every platform.
get_engine_path_any_platform(engine_tag, system, reg) ==
    IF Len(Split(engine_tag, "-")) < 2
    THEN [err |-> "IndexError", path |-> "", out |-> <<>>]
    ELSE LET version == version_of(engine_tag)
             engine_paths == enum_values(reg, EmptyFunction)
         IN  IF version \notin DOMAIN engine_paths
             THEN [err |-> "OSError_engine_version_not_found", path |-> "",
                   out |-> <<"found_engines">>]
             ELSE [err |-> "none", path |-> engine_paths[version],
                   out |-> <<"found_engines", "using_engine">>]

\* The result of get_engine_path: the error raised ("none" when it returns),
\* the path returned and the lines printed.
get_engine_path(engine_tag, system, reg) ==
    IF Len(Split(engine_tag, "-")) < 2
    THEN [err |-> "IndexError", path |-> "", out |-> <<>>]
    ELSE LET version == version_of(engine_tag)
             engine_paths == IF system = "Windows"
                             THEN enum_values(reg, EmptyFunction)
                             ELSE EmptyFunction
             notice == IF system = "Windows" THEN <<>> ELSE <<"windows_only">>
         IN  IF version \notin DOMAIN engine_paths
             THEN [err |-> "OSError_engine_version_not_found", path |-> "",
                   out |-> notice \o <<"found_engines">>]
             ELSE [err |-> "none", path |-> engine_paths[version],
                   out |-> notice \o <<"found_engines", "using_engine">>]

(* ------------------------------------------------------------------ *)
(* main: delete the old export, copy the engine's common files.        *)
(* ------------------------------------------------------------------ *)
\* main() without the deletion of the old export.
delete_old_export_skipped(fs) == [err |-> "none", fs |-> fs]

\* if os.path.exists(export_path): shutil.rmtree(export_path)
delete_old_export(fs) ==
    IF ~exists(fs, export_path) THEN [err |-> "none", fs |-> fs]
    ELSE IF ~isdir(fs, export_path)
         THEN [err |-> "NotADirectoryError", fs |-> fs]
         ELSE [err |-> "none", fs |-> rmtree(fs, export_path)]

\* shutil.copytree(<engine>/engine, <export>/engine): the source must be a
\* directory and the destination must not exist; the whole subtree is copied.
copytree_engine(eng, fs) ==
    LET dst == join(export_path, STR_engine)
        srcfiles == Under(DOMAIN eng.files, STR_engine)
        srcdirs == Under(eng.dirs, STR_engine)
        newfiles == {join(export_path, q) : q \in srcfiles}
    IN  IF STR_engine \notin eng.dirs THEN [err |-> "FileNotFoundError", fs |-> fs]
        ELSE IF exists(fs, dst) THEN [err |-> "FileExistsError", fs |-> fs]
        ELSE [err |-> "none",
              fs |-> [dirs |-> fs.dirs \cup Ancestors(dst)
                                  \cup {join(export_path, d) : d \in srcdirs},
                      files |-> [q \in (DOMAIN fs.files) \cup newfiles |->
                                    IF q \in newfiles
                                    THEN eng.files[SubSeq(q, Len(export_path) + 2, Len(q))]
                                    ELSE fs.files[q]]]]

(* ------------------------------------------------------------------ *)
(* copy_engine_binaries                                                *)
(* ------------------------------------------------------------------ *)
\* The files os.walk(rel_dir) finds below <engine>/rel_dir.
walk_files(paths, top) == {q \in paths : StartsWith(q, top \o <<SEP>>)}

\* The inner loop: excluded = excluded or fnmatch(path, join(rel_dir, pattern))
RECURSIVE excluded_by(_, _, _)
excluded_by(path, dir, patterns) ==
    IF patterns = <<>> THEN FALSE
    ELSE fnmatch(path, join(dir, Head(patterns))) \/ excluded_by(path, dir, Tail(patterns))

\* The inner loop with "excluded = fnmatch(...)" in place of "excluded =
\* excluded or fnmatch(...)": only the last pattern decides.
is_excluded_last_pattern(path, dir) == fnmatch(path, join(dir, excludes[Len(excludes)]))

is_excluded(path, dir) == excluded_by(path, dir, excludes)

\* The second loop of copy_engine_binaries over copypaths, in walk order.
RECURSIVE copy_engine_binaries(_, _, _, _)
copy_engine_binaries(eng, fs, dir, copypaths) ==
    IF copypaths = <<>> THEN fs
    ELSE LET path == Head(copypaths)
         IN  IF is_excluded(path, dir)
             THEN copy_engine_binaries(eng, fs, dir, Tail(copypaths))
             ELSE copy_engine_binaries(eng,
                      copy_with_parents(fs, join(export_path, path), eng.files[path]),
                      dir, Tail(copypaths))

\* The orders in which os.walk may list a set of files.
Orderings(S) ==
    {q \in [1..Cardinality(S) -> S] : \A i, j \in 1..Cardinality(S) : i # j => q[i] # q[j]}

(* ------------------------------------------------------------------ *)
(* copy_levels                                                         *)
(* ------------------------------------------------------------------ *)
\* copy_levels without the test "filename not in level_files".
RECURSIVE copy_levels_unfiltered(_, _, _)
copy_levels_unfiltered(lv, fs, walk) ==
    IF walk = <<>> THEN fs
    ELSE LET path == Head(walk)
             destpath == join(join(export_path, STR_Assets), path)
         IN  copy_levels_unfiltered(lv, copy_with_parents(fs, destpath, lv[path]), Tail(walk))

\* lv maps each file of <project>/Assets/levels, by its path relative to
\* <project>/Assets, to its content; walk is the order of the traversal.
RECURSIVE copy_levels(_, _, _)
copy_levels(lv, fs, walk) ==
    IF walk = <<>> THEN fs
    ELSE LET path == Head(walk)
             filename == basename(path)
             destpath == join(join(export_path, STR_Assets), path)
         IN  IF filename \notin level_files
             THEN copy_levels(lv, fs, Tail(walk))
             ELSE copy_levels(lv, copy_with_parents(fs, destpath, lv[path]), Tail(walk))

(* ------------------------------------------------------------------ *)
(* The project tree: the entries <project>/Assets may hold.            *)
(* ------------------------------------------------------------------ *)
NAME_Tex == <<"T","e","x">>
NAME_a_zip == <<"a",".","z","i","p">>
NAME_r_txt == <<"r",".","t","x","t">>
NAME_g_cryasset_pak == <<"g",".","c","r","y","a","s","s","e","t",".","p","a","k">>
NAME_Levels_txt == <<"L","e","v","e","l","s",".","t","x","t">>

\* The top-level names of <project>/Assets: three directories, three files.
AssetNames ==
    {STR_levels, NAME_Tex, NAME_a_zip, NAME_r_txt, NAME_g_cryasset_pak, NAME_Levels_txt}

\* os.path.isfile(itempath)
asset_isfile(itemname) == itemname \in {NAME_r_txt, NAME_g_cryasset_pak, NAME_Levels_txt}

\* The content of a plain file of <project>/Assets.
asset_content(itemname) ==
    CASE itemname = NAME_r_txt -> Raw(13)
      [] itemname = NAME_g_cryasset_pak -> Raw(14)
      [] OTHER -> Raw(15)

\* The files below a directory of <project>/Assets, as <<path relative to
\* <project>/Assets, content>>; those of levels are the level files lv.
asset_members(itemname, lv) ==
    CASE itemname = STR_levels -> {<<q, lv[q]>> : q \in DOMAIN lv}
      [] itemname = NAME_Tex ->
            {<<join(NAME_Tex, <<"a",".","d","d","s">>), Raw(11)>>}
      [] OTHER ->
            {<<join(itemname, <<"b",".","d","d","s">>), Raw(12)>>}

(* ------------------------------------------------------------------ *)
(* package_assets                                                      *)
(* ------------------------------------------------------------------ *)
input_assetpath == join(project_path, STR_Assets)
output_assetpath == join(export_path, STR_Assets)

\* shutil.move(src, dst) of a file: the directory of dst must exist.
move_file(fs, src, dst) ==
    IF ~exists(fs, dirname(dst)) THEN [err |-> "FileNotFoundError", fs |-> fs]
    ELSE LET rest == (DOMAIN fs.files) \ {src}
             c == fs.files[src]
             removed == [fs EXCEPT !.files = [q \in rest |-> fs.files[q]]]
         IN  [err |-> "none", fs |-> write_file(removed, dst, c)]

\* The else branch of line 148: shutil.make_archive writes base_name + '.zip',
\* and shutil.move renames it to pakname.replace('.zip', '.pak').
archive_in_process(fs, itemname, lv) ==
    LET pakname == join(output_assetpath, itemname) \o STR_zip
        made == write_file(fs, pakname, Zip(asset_members(itemname, lv)))
    IN  move_file(made, pakname, Replace(pakname, STR_zip, STR_pak))

\* The branch of line 139: 7z a -r -tzip -mx0 <output>/<itemname>.pak <item>;
\* check_call raises when 7z exits nonzero (tool_fails).
archive_7zip(fs, itemname, lv, tool_fails) ==
    IF tool_fails THEN [err |-> "CalledProcessError", fs |-> fs]
    ELSE [err |-> "none",
          fs |-> write_file(fs, join(output_assetpath, itemname \o STR_pak),
                            Zip(asset_members(itemname, lv)))]

\* What package_assets does with one entry of os.listdir(input_assetpath).
package_item(fs, itemname, lv, use_7z, tool_fails) ==
    LET itempath == join(input_assetpath, itemname)
    IN  IF Contains(lower(itempath), STR_levels) THEN [err |-> "none", fs |-> fs]
        ELSE IF EndsWith(itempath, STR_cryasset_pak) THEN [err |-> "none", fs |-> fs]
        ELSE IF asset_isfile(itemname)
             THEN [err |-> "none",
                   fs |-> write_file(fs, join(output_assetpath, itemname),
                                     asset_content(itemname))]
        ELSE IF use_7z THEN archive_7zip(fs, itemname, lv, tool_fails)
        ELSE archive_in_process(fs, itemname, lv)

\* The for loop of package_assets; the run of 7z for entry number fail_at
\* (counted from k) exits nonzero, 0 meaning that no run does.
RECURSIVE package_items(_, _, _, _, _, _)
package_items(fs, listing, k, lv, use_7z, fail_at) ==
    IF k > Len(listing) THEN [err |-> "none", fs |-> fs]
    ELSE LET r == package_item(fs, listing[k], lv, use_7z, fail_at = k)
         IN  IF r.err # "none" THEN r
             ELSE package_items(r.fs, listing, k + 1, lv, use_7z, fail_at)

package_assets(fs, listing, lv, use_7z, fail_at) ==
    LET made == IF ~exists(fs, output_assetpath) THEN makedirs(fs, output_assetpath) ELSE fs
    IN  package_items(made, listing, 1, lv, use_7z, fail_at)

(* ------------------------------------------------------------------ *)
(* copy_game_dll and create_config                                     *)
(* ------------------------------------------------------------------ *)
binpath == join(project_path, rel_dir)

\* The content of a file of <project>/bin/win_x64.
bin_content(filename) ==
    CASE filename = <<"M","y","G","a","m","e",".","d","l","l">> -> Raw(31)
      [] filename = <<"Z",".","D","L","L">> -> Raw(32)
      [] filename = <<"a",".","d","l","l">> -> Raw(34)
      [] OTHER -> Raw(33)

\* The loop of copy_game_dll without the fnmatch test: every file of the
\* directory is taken for the game DLL.
RECURSIVE copy_game_dll_loop_any_file(_, _, _)
copy_game_dll_loop_any_file(fs, listing, name) ==
    IF listing = <<>> THEN [err |-> "none", fs |-> fs, dll_name |-> name]
    ELSE LET filename == Head(listing)
             dest == join(join(export_path, rel_dir), filename)
         IN  IF ~isdir(fs, dirname(dest))
             THEN [err |-> "FileNotFoundError", fs |-> fs, dll_name |-> filename]
             ELSE copy_game_dll_loop_any_file(write_file(fs, dest, bin_content(filename)),
                                              Tail(listing), filename)

\* The for loop of copy_game_dll over os.listdir(binpath): the error raised,
\* the export tree and the global dll_name when the loop ends or raises.
RECURSIVE copy_game_dll_loop(_, _, _)
copy_game_dll_loop(fs, listing, name) ==
    IF listing = <<>> THEN [err |-> "none", fs |-> fs, dll_name |-> name]
    ELSE LET filename == Head(listing)
             dest == join(join(export_path, rel_dir), filename)
         IN  IF ~fnmatch(join(binpath, filename), STR_dll_glob)
             THEN copy_game_dll_loop(fs, Tail(listing), name)
             ELSE IF ~isdir(fs, dirname(dest))
                  THEN [err |-> "FileNotFoundError", fs |-> fs, dll_name |-> filename]
                  ELSE copy_game_dll_loop(write_file(fs, dest, bin_content(filename)),
                                          Tail(listing), filename)

\* bindir is [present, listing]: whether <project>/bin/win_x64 exists, and
\* what os.listdir returns for it, in its order.
copy_game_dll(fs, bindir, name) ==
    IF ~bindir.present THEN [err |-> "FileNotFoundError", fs |-> fs, dll_name |-> name]
    ELSE copy_game_dll_loop(fs, bindir.listing, name)

\* create_config formatting the module default instead of the global.
config_lines_default(name) ==
    << STR_sys_game_folder \o STR_Assets, STR_sys_dll_game \o default_dll_name >>

\* The two lines create_config writes.
config_lines(name) ==
    << STR_sys_game_folder \o STR_Assets, STR_sys_dll_game \o name >>

create_config(fs, name) ==
    IF ~isdir(fs, export_path) THEN [err |-> "FileNotFoundError", fs |-> fs]
    ELSE [err |-> "none",
          fs |-> write_file(fs, join(export_path, STR_system_cfg), Text(config_lines(name)))]

(* ------------------------------------------------------------------ *)
(* State.                                                              *)
(* ------------------------------------------------------------------ *)
VARIABLES
    pc,               \* the step main() is about to run, "done" or "failed"
    error,            \* the exception that ended the run, "none" otherwise
    failed_at,        \* the step that raised it
    stdout,           \* the lines get_engine_path printed
    platform_system,  \* platform.system()
    registry,         \* the values of HKCU\SOFTWARE\Crytek\CryEngine, in order
    engine_tag,       \* project_data['require']['engine']
    engine_path,      \* what get_engine_path returned
    engine,           \* the file tree of the engine installation
    assets,           \* os.listdir(<project>/Assets), in its order
    levels,           \* the files below <project>/Assets/levels
    bin_dir,          \* <project>/bin/win_x64: [present, listing]
    use_7zip,         \* os.path.exists(r"C:\Program Files\7-Zip")
    export,           \* the file tree at export_path
    dll_name,         \* the module global dll_name
    run,              \* how many times the script has been started
    export_at_start   \* the export tree when this run of the script started

vars == <<pc, error, failed_at, stdout, platform_system, registry, engine_tag,
          engine_path, engine, assets, levels, bin_dir, use_7zip, export,
          dll_name, run, export_at_start>>

sources == <<platform_system, registry, engine_tag, engine, assets, levels,
             bin_dir, use_7zip>>

(* ------------------------------------------------------------------ *)
(* The inputs the model draws from.                                    *)
(* ------------------------------------------------------------------ *)
SeqsUpTo(S, n) ==
    UNION {{q \in [1..k -> S] : \A i, j \in 1..k : i # j => q[i] # q[j]} : k \in 0..n}

SubsetsUpTo(S, n) == {T \in SUBSET S : Cardinality(T) <= n}

\* Files an engine installation may hold below bin\win_x64.
EngineBinNames ==
    { <<"S","y","s",".","d","l","l">>,
      <<"Q","t","5",".","d","l","l">>,
      <<"q","t",".","c","o","n","f">>,
      <<"E","d","i","t","o","r","\\","a",".","d","l","l">>,
      <<"s","u","b","\\","Q","t",".","d","l","l">>,
      <<"i","c","u",".","d","a","t">> }

engine_content(name) ==
    CASE name = <<"S","y","s",".","d","l","l">> -> Raw(1)
      [] name = <<"Q","t","5",".","d","l","l">> -> Raw(2)
      [] name = <<"q","t",".","c","o","n","f">> -> Raw(3)
      [] name = <<"E","d","i","t","o","r","\\","a",".","d","l","l">> -> Raw(4)
      [] name = <<"s","u","b","\\","Q","t",".","d","l","l">> -> Raw(5)
      [] OTHER -> Raw(6)

\* The tree of an engine installation holding the files names below
\* bin\win_x64 and, with common, the directory engine with one file in it.
EngineTree(names, common) ==
    LET binfiles == {join(rel_dir, nm) : nm \in names}
        commonfile == join(STR_engine, <<"e",".","p","a","k">>)
        allfiles == binfiles \cup (IF common THEN {commonfile} ELSE {})
    IN  [dirs |-> UNION {Ancestors(dirname(q)) : q \in allfiles},
         files |-> [q \in allfiles |->
                      IF q = commonfile THEN Raw(7)
                      ELSE engine_content(SubSeq(q, Len(rel_dir) + 2, Len(q)))]]

\* Files the levels subtree may hold, relative to <project>/Assets.
LevelNames ==
    { join(STR_levels, <<"L","1","\\","f","i","l","e","l","i","s","t",".","x","m","l">>),
      join(STR_levels, <<"L","1","\\","n","o","t","e","s",".","t","x","t">>),
      join(STR_levels, <<"L","1","\\","l","e","v","e","l",".","p","a","k">>),
      join(STR_levels, <<"L","2","\\","L","e","v","e","l",".","p","a","k">>),
      join(STR_levels, <<"t","e","r","r","a","i","n","t","e","x","t","u","r","e",".","p","a","k">>) }

level_content(path) ==
    CASE basename(path) = <<"f","i","l","e","l","i","s","t",".","x","m","l">> -> Raw(21)
      [] basename(path) = <<"n","o","t","e","s",".","t","x","t">> -> Raw(22)
      [] basename(path) = <<"l","e","v","e","l",".","p","a","k">> -> Raw(23)
      [] basename(path) = <<"L","e","v","e","l",".","p","a","k">> -> Raw(24)
      [] OTHER -> Raw(25)

LevelTree(names) == [q \in names |-> level_content(q)]

\* Files <project>/bin/win_x64 may hold.
BinNames ==
    { <<"M","y","G","a","m","e",".","d","l","l">>,
      <<"Z",".","D","L","L">>,
      <<"a",".","d","l","l">>,
      <<"M","y","G","a","m","e",".","p","d","b">> }

\* Values the registry key may hold: the null entry and three engines.
RegistryValues ==
    { << <<>>, "" >>,
      << <<"5",".","3">>, "ce53" >>,
      << <<"5",".","4">>, "ce54" >>,
      << <<"5",".","3","-","r","c","1">>, "ce53rc1" >> }

EngineTags ==
    { <<"e","n","g","i","n","e","-","5",".","3">>,
      <<"e","n","g","i","n","e","-","5",".","4">>,
      <<"e","n","g","i","n","e","-","5",".","9">>,
      <<"e","n","g","i","n","e","-","5",".","3","-","r","c","1">>,
      <<"e","n","g","i","n","e">> }

\* What export_path may hold before the run: nothing, the output of some
\* earlier run of another project, or a plain file.
ExportAbsent == EmptyTree
ExportStale ==
    LET a == join(export_path, STR_Assets)
        b == join(export_path, rel_dir)
        l == join(join(a, STR_levels), <<"L","1">>)
    IN  [dirs |-> Ancestors(l) \cup Ancestors(b),
         files |-> (join(export_path, STR_system_cfg) :> Raw(99))
                   @@ (join(a, <<"o","l","d",".","p","a","k">>) :> Raw(98))
                   @@ (join(b, <<"o","l","d",".","d","l","l">>) :> Raw(97))
                   @@ (join(l, <<"n","o","t","e","s",".","t","x","t">>) :> Raw(96))]
ExportIsFile == [dirs |-> {}, files |-> (export_path :> Raw(95))]

DefaultRegistry ==
    << << <<>>, "" >>, << <<"5",".","3">>, "ce53" >>, << <<"5",".","4">>, "ce54" >> >>
DefaultTag == <<"e","n","g","i","n","e","-","5",".","3">>
DefaultEngine == EngineTree({<<"S","y","s",".","d","l","l">>}, TRUE)
DefaultAssets == <<STR_levels, NAME_Tex>>
DefaultLevels ==
    LevelTree({ join(STR_levels, <<"L","1","\\","f","i","l","e","l","i","s","t",".","x","m","l">>),
                join(STR_levels, <<"L","1","\\","n","o","t","e","s",".","t","x","t">>) })
DefaultBin == [present |-> TRUE, listing |-> << <<"M","y","G","a","m","e",".","d","l","l">> >>]

(* ------------------------------------------------------------------ *)
(* Initial states: the script is about to start.  Each family varies   *)
(* the inputs of one part of the pipeline and fixes the others.        *)
(* ------------------------------------------------------------------ *)
\* main() deleting the old export before it resolves the engine path.
main_steps_delete_first ==
    <<"rmtree", "get_engine_path", "copytree", "copy_engine_binaries",
      "package_assets", "copy_levels", "copy_game_dll", "create_config">>

\* main(): the order of the steps.
main_steps ==
    <<"get_engine_path", "rmtree", "copytree", "copy_engine_binaries",
      "package_assets", "copy_levels", "copy_game_dll", "create_config">>

StartOfRun ==
    /\ pc = main_steps[1]
    /\ error = "none"
    /\ failed_at = "none"
    /\ stdout = <<>>
    /\ engine_path = ""
    /\ dll_name = default_dll_name
    /\ run = 1
    /\ export_at_start = export

\* The resolver's inputs vary.
InitResolve ==
    /\ platform_system \in {"Windows", "Linux"}
    /\ registry \in SeqsUpTo(RegistryValues, MaxRegistry)
    /\ engine_tag \in EngineTags
    /\ export \in {ExportAbsent, ExportStale}
    /\ engine = DefaultEngine
    /\ assets = DefaultAssets
    /\ levels = DefaultLevels
    /\ bin_dir = DefaultBin
    /\ use_7zip = FALSE

\* The engine tree and the old export vary.
InitMirror ==
    /\ platform_system = "Windows"
    /\ registry = DefaultRegistry
    /\ engine_tag = DefaultTag
    /\ export \in {ExportAbsent, ExportStale, ExportIsFile}
    /\ \E names \in SubsetsUpTo(EngineBinNames, MaxEngineFiles), common \in BOOLEAN :
           engine = EngineTree(names, common)
    /\ assets = DefaultAssets
    /\ levels = DefaultLevels
    /\ bin_dir \in {DefaultBin, [present |-> TRUE, listing |-> <<>>]}
    /\ use_7zip = FALSE

\* The entries of the project's assets and the archiver vary, over a stale export.
InitAssets ==
    /\ platform_system = "Windows"
    /\ registry = DefaultRegistry
    /\ engine_tag = DefaultTag
    /\ export = ExportStale
    /\ engine = DefaultEngine
    /\ assets \in SeqsUpTo(AssetNames, MaxAssets)
    /\ levels = IF \E i \in 1..Len(assets) : assets[i] = STR_levels
                THEN DefaultLevels ELSE EmptyFunction
    /\ bin_dir = DefaultBin
    /\ use_7zip \in BOOLEAN

\* The files of the levels subtree vary.
InitLevels ==
    /\ platform_system = "Windows"
    /\ registry = DefaultRegistry
    /\ engine_tag = DefaultTag
    /\ export \in {ExportAbsent, ExportStale}
    /\ engine = DefaultEngine
    /\ assets \in {DefaultAssets, <<NAME_r_txt, STR_levels>>}
    /\ \E names \in SubsetsUpTo(LevelNames, MaxLevelFiles) : levels = LevelTree(names)
    /\ bin_dir = DefaultBin
    /\ use_7zip \in BOOLEAN

\* The project's binary directory varies, against engines that do and do
\* not contribute files to <export>\bin\win_x64.
InitDll ==
    /\ platform_system = "Windows"
    /\ registry = DefaultRegistry
    /\ engine_tag = DefaultTag
    /\ export \in {ExportAbsent, ExportStale}
    /\ \E names \in { {}, {<<"Q","t","5",".","d","l","l">>}, {<<"S","y","s",".","d","l","l">>} } :
           engine = EngineTree(names, TRUE)
    /\ assets = DefaultAssets
    /\ levels = DefaultLevels
    /\ \/ bin_dir = [present |-> FALSE, listing |-> <<>>]
       \/ \E l \in SeqsUpTo(BinNames, MaxBinFiles) : bin_dir = [present |-> TRUE, listing |-> l]
    /\ use_7zip = FALSE

Init == (InitResolve \/ InitMirror \/ InitAssets \/ InitLevels \/ InitDll) /\ StartOfRun

(* ------------------------------------------------------------------ *)
(* Actions: one per step of main().                                    *)
(* ------------------------------------------------------------------ *)
\* The step main() runs after step, "done" after the last.
step_after(step) ==
    LET k == CHOOSE i \in 1..Len(main_steps) : main_steps[i] = step
    IN  IF k = Len(main_steps) THEN "done" ELSE main_steps[k + 1]

\* An exception is not caught anywhere: it ends the run.
Advance(step, err) ==
    /\ pc' = IF err = "none" THEN step_after(step) ELSE "failed"
    /\ error' = err
    /\ failed_at' = IF err = "none" THEN failed_at ELSE step
    /\ UNCHANGED <<sources, run, export_at_start>>

GetEnginePath ==
    /\ pc = "get_engine_path"
    /\ LET r == get_engine_path(engine_tag, platform_system, registry)
       IN  /\ engine_path' = r.path
           /\ stdout' = stdout \o r.out
           /\ Advance("get_engine_path", r.err)
    /\ UNCHANGED <<export, dll_name>>

DeleteOldExport ==
    /\ pc = "rmtree"
    /\ LET r == delete_old_export(export)
       IN  /\ export' = r.fs
           /\ Advance("rmtree", r.err)
    /\ UNCHANGED <<stdout, engine_path, dll_name>>

CopyEngineTree ==
    /\ pc = "copytree"
    /\ LET r == copytree_engine(engine, export)
       IN  /\ export' = r.fs
           /\ Advance("copytree", r.err)
    /\ UNCHANGED <<stdout, engine_path, dll_name>>

CopyEngineBinaries ==
    /\ pc = "copy_engine_binaries"
    /\ \E copypaths \in Orderings(walk_files(DOMAIN engine.files, rel_dir)) :
           export' = copy_engine_binaries(engine, export, rel_dir, copypaths)
    /\ Advance("copy_engine_binaries", "none")
    /\ UNCHANGED <<stdout, engine_path, dll_name>>

PackageAssets ==
    /\ pc = "package_assets"
    /\ \E fail_at \in 0..Len(assets) :
           /\ fail_at # 0 => use_7zip
           /\ LET r == package_assets(export, assets, levels, use_7zip, fail_at)
              IN  /\ export' = r.fs
                  /\ Advance("package_assets", r.err)
    /\ UNCHANGED <<stdout, engine_path, dll_name>>

CopyLevels ==
    /\ pc = "copy_levels"
    /\ \E walk \in Orderings(DOMAIN levels) :
           export' = copy_levels(levels, export, walk)
    /\ Advance("copy_levels", "none")
    /\ UNCHANGED <<stdout, engine_path, dll_name>>

CopyGameDll ==
    /\ pc = "copy_game_dll"
    /\ LET r == copy_game_dll(export, bin_dir, dll_name)
       IN  /\ export' = r.fs
           /\ dll_name' = r.dll_name
           /\ Advance("copy_game_dll", r.err)
    /\ UNCHANGED <<stdout, engine_path>>

CreateConfig ==
    /\ pc = "create_config"
    /\ LET r == create_config(export, dll_name)
       IN  /\ export' = r.fs
           /\ Advance("create_config", r.err)
    /\ UNCHANGED <<stdout, engine_path, dll_name>>

\* The operator starts the script again on the same sources and export
\* path: a new process, so the module globals are fresh.
Rerun ==
    /\ pc = "done"
    /\ run < MaxRuns
    /\ pc' = main_steps[1]
    /\ error' = "none"
    /\ failed_at' = "none"
    /\ stdout' = <<>>
    /\ engine_path' = ""
    /\ dll_name' = default_dll_name
    /\ run' = run + 1
    /\ export_at_start' = export
    /\ UNCHANGED <<sources, export>>

Next ==
    \/ GetEnginePath
    \/ DeleteOldExport
    \/ CopyEngineTree
    \/ CopyEngineBinaries
    \/ PackageAssets
    \/ CopyLevels
    \/ CopyGameDll
    \/ CreateConfig
    \/ Rerun

Spec == Init /\ [][Next]_vars

(* ------------------------------------------------------------------ *)
(* Helpers of the properties.                                          *)
(* ------------------------------------------------------------------ *)
\* The steps of the current run that have completed.
Completed(step) ==
    LET k == CHOOSE i \in 1..Len(main_steps) : main_steps[i] = step
        at == IF pc = "failed" THEN failed_at ELSE pc
    IN  \/ pc = "done"
        \/ \E j \in 1..Len(main_steps) : main_steps[j] = at /\ j > k

\* The files of the engine below bin\win_x64, relative to the engine root.
EngineBinFiles == {q \in DOMAIN engine.files : StartsWith(q, rel_dir \o <<SEP>>)}

\* Path p matches some pattern of the exclude set joined to the copy root.
MatchesSomeExclude(p) ==
    \E i \in 1..Len(excludes) : fnmatch(p, rel_dir \o <<SEP>> \o excludes[i])

ExportFile(rel) == export_path \o <<SEP>> \o rel

(* ------------------------------------------------------------------ *)
(* C1                                                                   *)
(* ------------------------------------------------------------------ *)
\* C1: when copy_engine_binaries has just run, for every file p of
\* <engine>\bin\win_x64: if p matches some exclude pattern then <export>\p
\* does not exist, otherwise <export>\p exists with the content of
\* <engine>\p; and the files of <export>\bin\win_x64 are exactly the copies
\* of the non-matching files, whatever the order of the traversal was.
C1_MirrorCopiesExactlyNonExcluded ==
    pc = "package_assets" =>
        /\ \A p \in EngineBinFiles :
              IF MatchesSomeExclude(p)
              THEN ExportFile(p) \notin DOMAIN export.files
              ELSE /\ ExportFile(p) \in DOMAIN export.files
                   /\ export.files[ExportFile(p)] = engine.files[p]
        /\ {q \in DOMAIN export.files : StartsWith(q, ExportFile(rel_dir) \o <<SEP>>)}
              = {ExportFile(p) : p \in {q \in EngineBinFiles : ~MatchesSomeExclude(q)}}

\* An engine with an excluded file (Qt5.dll) and a kept one (Sys.dll) has
\* been mirrored: Sys.dll is in the export, Qt5.dll is not.
C1_Witness ==
    /\ pc = "package_assets"
    /\ rel_dir \o <<SEP>> \o <<"Q","t","5",".","d","l","l">> \in DOMAIN engine.files
    /\ rel_dir \o <<SEP>> \o <<"S","y","s",".","d","l","l">> \in DOMAIN engine.files
    /\ ExportFile(rel_dir \o <<SEP>> \o <<"S","y","s",".","d","l","l">>) \in DOMAIN export.files
    /\ ExportFile(rel_dir \o <<SEP>> \o <<"Q","t","5",".","d","l","l">>) \notin DOMAIN export.files

(* ------------------------------------------------------------------ *)
(* C2                                                                   *)
(* ------------------------------------------------------------------ *)
\* C2: after a successful run, no file that was in the export before the
\* first run is still there with its old content, no directory of the old
\* export is left that the run did not need, and a second run on the same
\* sources and export path ends with the same export tree as the first.
C2_ExportDependsOnlyOnSources ==
    /\ (pc = "done" /\ run = 1) =>
          /\ \A p \in DOMAIN export_at_start.files :
                p \notin DOMAIN export.files \/ export.files[p] # export_at_start.files[p]
          /\ \A d \in export_at_start.dirs \cap export.dirs :
                \/ d \in {export_path, output_assetpath}
                \/ \E q \in DOMAIN export.files : StartsWith(q, d \o <<SEP>>)
    /\ (pc = "done" /\ run > 1) => export = export_at_start

\* A second run has completed over the output of the first, which itself
\* replaced a stale export.
C2_Witness ==
    /\ pc = "done"
    /\ run = 2
    /\ ExportFile(STR_system_cfg) \in DOMAIN export.files
    /\ ExportFile(STR_Assets \o <<SEP>> \o <<"o","l","d",".","p","a","k">>) \notin DOMAIN export.files

\* The first run has completed over a stale export.
C2_WitnessStale ==
    /\ pc = "done"
    /\ run = 1
    /\ export_at_start = ExportStale

(* ------------------------------------------------------------------ *)
(* C3                                                                   *)
(* ------------------------------------------------------------------ *)
\* The substring of tag after its first '-'.
AfterFirstDash(tag) ==
    LET k == CHOOSE i \in 1..Len(tag) : tag[i] = "-" /\ \A j \in 1..(i - 1) : tag[j] # "-"
    IN  SubSeq(tag, k + 1, Len(tag))

HasDash(tag) == \E i \in 1..Len(tag) : tag[i] = "-"

\* The table get_engine_path builds on Windows.
RegistryTable == enum_values(registry, EmptyFunction)

\* C3: on Windows, for a tag <name>-<version>, once get_engine_path has run:
\* with version the substring after the first '-', it has returned
\* T[version] when version is a key of the table T, and has failed with the
\* engine-version-not-found error when it is not.
C3_VersionIsRestAfterFirstDash ==
    (platform_system = "Windows" /\ HasDash(engine_tag) /\ pc # "get_engine_path") =>
        LET version == AfterFirstDash(engine_tag)
        IN  IF version \in DOMAIN RegistryTable
            THEN failed_at # "get_engine_path" /\ engine_path = RegistryTable[version]
            ELSE /\ pc = "failed"
                 /\ failed_at = "get_engine_path"
                 /\ error = "OSError_engine_version_not_found"

\* The same for the tags with exactly one '-': what the code does.
C3_SingleDash ==
    (Len(Split(engine_tag, "-")) = 2) => C3_VersionIsRestAfterFirstDash

(* ------------------------------------------------------------------ *)
(* C4                                                                   *)
(* ------------------------------------------------------------------ *)
\* C4 as stated: off Windows, get_engine_path fails with an error other
\* than the engine-version-not-found error of a populated table.
C4_UnsupportedPlatformIsDistinct ==
    (platform_system # "Windows" /\ HasDash(engine_tag) /\ pc # "get_engine_path") =>
        /\ pc = "failed"
        /\ failed_at = "get_engine_path"
        /\ error # "OSError_engine_version_not_found"

\* C4 as amended: off Windows, for a tag with a '-', get_engine_path builds
\* an empty table, prints the notice that lookups are only possible on
\* Windows and fails with the same engine-version-not-found error as a
\* populated table that lacks the version; the notice is printed on no
\* Windows run.
C4_UnsupportedPlatformFailsAsNotFound ==
    /\ (platform_system # "Windows" /\ HasDash(engine_tag) /\ pc # "get_engine_path") =>
          /\ pc = "failed"
          /\ failed_at = "get_engine_path"
          /\ error = "OSError_engine_version_not_found"
          /\ engine_path = ""
          /\ \E i \in 1..Len(stdout) : stdout[i] = "windows_only"
    /\ platform_system = "Windows" => \A i \in 1..Len(stdout) : stdout[i] # "windows_only"

\* get_engine_path has failed on Linux although the registry model holds
\* the version asked for.
C4_Witness ==
    /\ platform_system = "Linux"
    /\ pc = "failed"
    /\ failed_at = "get_engine_path"
    /\ engine_tag = DefaultTag
    /\ <<"5",".","3">> \in DOMAIN RegistryTable

(* ------------------------------------------------------------------ *)
(* C5                                                                   *)
(* ------------------------------------------------------------------ *)
\* The name of a level file is one of the three names of the whitelist.
Whitelisted(r) ==
    \/ basename(r) = <<"f","i","l","e","l","i","s","t",".","x","m","l">>
    \/ basename(r) = <<"t","e","r","r","a","i","n","t","e","x","t","u","r","e",".","p","a","k">>
    \/ basename(r) = <<"l","e","v","e","l",".","p","a","k">>

LevelDest(r) == ExportFile(STR_Assets \o <<SEP>> \o r)

\* C5: once copy_levels has run, a file at r below <project>\Assets\levels
\* is at <export>\Assets\r, with the same content, exactly when its name is
\* in the whitelist; and from the deletion of the old export on, a level
\* file outside the whitelist is nowhere in the export tree, neither as a
\* file nor as a member of an archive.
C5_OnlyWhitelistedLevelFiles ==
    /\ Completed("copy_levels") =>
          \A r \in DOMAIN levels :
              IF Whitelisted(r)
              THEN /\ LevelDest(r) \in DOMAIN export.files
                   /\ export.files[LevelDest(r)] = levels[r]
              ELSE LevelDest(r) \notin DOMAIN export.files
    /\ Completed("rmtree") =>
          \A r \in DOMAIN levels :
              ~Whitelisted(r) =>
                  /\ LevelDest(r) \notin DOMAIN export.files
                  /\ \A q \in DOMAIN export.files :
                        /\ export.files[q] # levels[r]
                        /\ \A m \in export.files[q].entries : m[1] # r

\* copy_levels has run on a level folder with filelist.xml and notes.txt:
\* only filelist.xml is in the export.
C5_Witness ==
    LET f == STR_levels \o <<SEP>> \o <<"L","1","\\","f","i","l","e","l","i","s","t",".","x","m","l">>
        n == STR_levels \o <<SEP>> \o <<"L","1","\\","n","o","t","e","s",".","t","x","t">>
    IN  /\ pc = "copy_game_dll"
        /\ DOMAIN levels = {f, n}
        /\ LevelDest(f) \in DOMAIN export.files
        /\ LevelDest(n) \notin DOMAIN export.files

(* ------------------------------------------------------------------ *)
(* C6                                                                   *)
(* ------------------------------------------------------------------ *)
\* C6: when package_assets has just completed, for every entry E of
\* <project>\Assets: if its path contains 'levels' (in any case, as the code
\* tests it) or ends in '.cryasset.pak', neither <export>\Assets\E nor
\* <export>\Assets\E.pak exists; otherwise a plain file E is copied to
\* <export>\Assets\E; otherwise the archive of directory E is at
\* <export>\Assets\E.pak, and no file of <export>\Assets ends in '.zip'.
C6_ArchiveNamedEntryPak ==
    pc = "copy_levels" =>
        \A i \in 1..Len(assets) :
            LET E == assets[i]
                itempath == project_path \o <<SEP>> \o STR_Assets \o <<SEP>> \o E
                out == ExportFile(STR_Assets \o <<SEP>> \o E)
            IN  IF Contains(lower(itempath), STR_levels) \/ EndsWith(itempath, STR_cryasset_pak)
                THEN out \notin DOMAIN export.files /\ out \o STR_pak \notin DOMAIN export.files
                ELSE IF asset_isfile(E)
                THEN out \in DOMAIN export.files /\ export.files[out] = asset_content(E)
                ELSE /\ out \o STR_pak \in DOMAIN export.files
                     /\ export.files[out \o STR_pak].kind = "zip"
                     /\ \A q \in DOMAIN export.files : ~EndsWith(q, STR_zip)

\* The same, for the directories whose name does not contain '.zip'.
C6_NoZipInName ==
    (\A i \in 1..Len(assets) : ~Contains(assets[i], STR_zip)) => C6_ArchiveNamedEntryPak

(* ------------------------------------------------------------------ *)
(* C7                                                                   *)
(* ------------------------------------------------------------------ *)
\* C7: in every run that has completed create_config, <export>\system.cfg
\* is a text file of exactly two lines, 'sys_game_folder=Assets' and
\* 'sys_dll_game=' followed, unchanged, by the value of dll_name; when the
\* project's binary directory lists the one file MyGame.dll, the second line
\* is 'sys_dll_game=MyGame.dll'.
C7_ConfigHasTwoLines ==
    pc = "done" =>
        /\ ExportFile(STR_system_cfg) \in DOMAIN export.files
        /\ LET cfg == export.files[ExportFile(STR_system_cfg)]
           IN  /\ cfg.kind = "text"
               /\ Len(cfg.lines) = 2
               /\ cfg.lines[1] = <<"s","y","s","_","g","a","m","e","_","f","o","l","d","e","r",
                                   "=","A","s","s","e","t","s">>
               /\ cfg.lines[2] = <<"s","y","s","_","d","l","l","_","g","a","m","e","=">> \o dll_name
               /\ bin_dir.listing = << <<"M","y","G","a","m","e",".","d","l","l">> >> =>
                     cfg.lines[2] = <<"s","y","s","_","d","l","l","_","g","a","m","e","=",
                                      "M","y","G","a","m","e",".","d","l","l">>

\* A run has written system.cfg after copy_game_dll found MyGame.dll.
C7_Witness ==
    /\ pc = "done"
    /\ dll_name = <<"M","y","G","a","m","e",".","d","l","l">>
    /\ ExportFile(STR_system_cfg) \in DOMAIN export.files

(* ------------------------------------------------------------------ *)
(* C8 and C9                                                            *)
(* ------------------------------------------------------------------ *)
\* The name ends in '.dll', in any case.
IsDllName(nm) == Len(nm) >= 4 /\ lower(SubSeq(nm, Len(nm) - 3, Len(nm))) = <<".","d","l","l">>

BinHasDll == \E i \in 1..Len(bin_dir.listing) : IsDllName(bin_dir.listing[i])

\* The last DLL of the listing.
LastDll ==
    LET k == CHOOSE i \in 1..Len(bin_dir.listing) :
                 /\ IsDllName(bin_dir.listing[i])
                 /\ \A j \in (i + 1)..Len(bin_dir.listing) : ~IsDllName(bin_dir.listing[j])
    IN  bin_dir.listing[k]

\* C8: when <project>\bin\win_x64 exists and holds no file whose name ends
\* in '.dll', the step copy_game_dll raises nothing and changes neither the
\* export tree nor dll_name, which stays 'Game.dll'; and the second line of
\* system.cfg is then 'sys_dll_game=Game.dll'.
C8_NoDllKeepsDefault ==
    /\ [][(pc = "copy_game_dll" /\ bin_dir.present /\ ~BinHasDll) =>
             /\ pc' = "create_config"
             /\ export' = export
             /\ dll_name' = dll_name
             /\ dll_name = <<"G","a","m","e",".","d","l","l">>]_vars
    /\ []((pc = "done" /\ bin_dir.present /\ ~BinHasDll) =>
             export.files[ExportFile(STR_system_cfg)].lines[2]
                = <<"s","y","s","_","d","l","l","_","g","a","m","e","=",
                    "G","a","m","e",".","d","l","l">>)

\* A run has completed on a binary directory that holds only MyGame.pdb.
C8_Witness ==
    /\ pc = "done"
    /\ bin_dir.present
    /\ bin_dir.listing = << <<"M","y","G","a","m","e",".","p","d","b">> >>
    /\ dll_name = <<"G","a","m","e",".","d","l","l">>

\* C9: whenever <project>\bin\win_x64 holds a file matching '*.dll', the
\* step copy_game_dll does not fail, and once it has run the last DLL of
\* the listing is in <export>\bin\win_x64 with its content and dll_name is
\* its name, whatever the engine tree holds.
C9_DllLocatedAndCopied ==
    (bin_dir.present /\ BinHasDll) =>
        /\ failed_at # "copy_game_dll"
        /\ Completed("copy_game_dll") =>
              /\ dll_name = LastDll
              /\ ExportFile(rel_dir \o <<SEP>> \o LastDll) \in DOMAIN export.files
              /\ export.files[ExportFile(rel_dir \o <<SEP>> \o LastDll)] = bin_content(LastDll)

\* The same, when the engine mirror has left a directory <export>\bin\win_x64.
C9_WhenMirrorMadeBinDir ==
    (\E p \in EngineBinFiles : dirname(p) = rel_dir /\ ~MatchesSomeExclude(p))
        => C9_DllLocatedAndCopied

(* ------------------------------------------------------------------ *)
(* C10                                                                  *)
(* ------------------------------------------------------------------ *)
\* C10 as stated, its last two clauses: a failed get_engine_path leaves the
\* export as it was, and after a run <export>\system.cfg exists only if
\* every step completed.
C10_ConfigOnlyAfterAllSteps ==
    /\ failed_at = "get_engine_path" => export = export_at_start
    /\ (pc \in {"done", "failed"} /\ ExportFile(STR_system_cfg) \in DOMAIN export.files)
          => pc = "done"

\* Step b follows step a in the order the specification gives.
FollowsInOrder(a, b) ==
    <<a, b>> \in { <<"get_engine_path", "rmtree">>, <<"rmtree", "copytree">>,
                   <<"copytree", "copy_engine_binaries">>,
                   <<"copy_engine_binaries", "package_assets">>,
                   <<"package_assets", "copy_levels">>,
                   <<"copy_levels", "copy_game_dll">>,
                   <<"copy_game_dll", "create_config">>,
                   <<"create_config", "done">>, <<"done", "get_engine_path">> }

\* C10 as amended: the steps run in the fixed order; a step that fails ends
\* the run, after which the export no longer changes, and the failing step
\* removes nothing that was written;
\* a failed get_engine_path leaves the export as it was before the run; and
\* after a failed run <export>\system.cfg exists only as the file that was
\* there before the run, which get_engine_path failed too early to delete.
C10_FixedOrderAbortNoRollback ==
    /\ [][pc' # pc => (pc' = "failed" \/ FollowsInOrder(pc, pc'))]_vars
    /\ [][pc = "failed" => export' = export]_vars
    /\ [][pc' = "failed" =>
             /\ export.dirs \subseteq export'.dirs
             /\ \A q \in DOMAIN export.files :
                   q \in DOMAIN export'.files /\ export'.files[q] = export.files[q]]_vars
    /\ [](failed_at = "get_engine_path" => export = export_at_start)
    /\ []((pc = "failed" /\ ExportFile(STR_system_cfg) \in DOMAIN export.files) =>
             /\ failed_at = "get_engine_path"
             /\ ExportFile(STR_system_cfg) \in DOMAIN export_at_start.files
             /\ export.files[ExportFile(STR_system_cfg)]
                   = export_at_start.files[ExportFile(STR_system_cfg)])

\* A run has failed in package_assets after the engine files were copied,
\* and they are still in the export.
C10_Witness ==
    /\ pc = "failed"
    /\ failed_at = "package_assets"
    /\ ExportFile(STR_engine \o <<SEP>> \o <<"e",".","p","a","k">>) \in DOMAIN export.files
    /\ ExportFile(STR_system_cfg) \notin DOMAIN export.files

\* A run has failed in get_engine_path over a stale export, whose
\* system.cfg is still there.
C10_WitnessStaleConfig ==
    /\ pc = "failed"
    /\ failed_at = "get_engine_path"
    /\ export = ExportStale

====
